---- MODULE Spec2Model ----
(***************************************************************************)
(* PaperRank: the frontier-driven citation crawl.                          *)
(*                                                                         *)
(* The store is the Redis database of util/database/redis_connector.py;    *)
(* a Query (update/query.py) owns one claimed batch, makes one request,    *)
(* stages the Redis commands of worker() (update/worker.py) in a           *)
(* MULTI/EXEC pipeline, executes it and decrements the process counter.    *)
(* The Manager that claims batches and starts the Query runs is not among  *)
(* the sources; it is modelled from section 4.5 of the specification and   *)
(* claims with Redis.pop, which is.                                        *)
(***************************************************************************)
EXTENDS Integers, Sequences, FiniteSets, TLC

\* ---------------------------------------------------------------- bounds
NumPMID == 3
MaxProcs == 2
BatchSize == 2
MaxFails == 2
NumCallers == 2

PMID == 1..NumPMID

\* The processes of the pool: one more than the Manager may keep busy.
PoolSize == MaxProcs + 1
Proc == 1..PoolSize
Caller == 1..NumCallers

VARIABLES
    db,          \* the Redis keys EXPLORE, INSTANCE, SEEN, DANGLING, GRAPH, OUT
    proc_count,  \* multiprocessing.Value shared by the Manager and the Query runs
    mpc,         \* the Manager's position in its loop
    popped,      \* the list Redis.pop holds between srandmember and srem
    qpc,         \* each Query run's position
    pmids,       \* each Query run's self.pmids
    pipe,        \* each Query run's staged StrictPipeline
    fails,       \* failures the lookup API and the extractor have produced
    resp,        \* what each Query run's request came back with
    api,         \* the citation networks the lookup API may answer from
    cpc,         \* position of each stand-alone caller of Redis.pop
    cpopped,     \* what each caller's srandmember returned
    cremoved,    \* what each caller's srem took out of the set
    record,      \* the citation record handed to worker() on its own
    applied      \* how many times that record's commands were committed

vars == <<db, proc_count, mpc, popped, qpc, pmids, pipe, fails, resp, api,
          cpc, cpopped, cremoved, record, applied>>

\* The keys of the store; INST is the key "INSTANCE".
EXPLORE == db["EXPLORE"]
INST == db["INSTANCE"]
SEEN == db["SEEN"]
DANGLING == db["DANGLING"]
GRAPH == db["GRAPH"]
OUT == db["OUT"]

\* ------------------------------------------------- the lookup API's answers
\* One citation record per PMID, as the extractor hands it to worker().
Record(id, outbound, inbound) ==
    [id |-> id, outbound |-> outbound, inbound |-> inbound, error |-> FALSE]

Malformed(id) ==
    [id |-> id, outbound |-> <<>>, inbound |-> <<>>, error |-> TRUE]

\* No record is under study while the crawl runs.
NoRecord == Malformed(0)

\* 1 cites 2 and 3, 3 cites 1; every other paper has no citation at all.
NetStar == [c \in PMID |->
    IF c = 1 THEN Record(1, <<2, 3>>, <<3>>)
    ELSE IF c = 2 THEN Record(2, <<>>, <<1>>)
    ELSE IF c = 3 THEN Record(3, <<1>>, <<1>>)
    ELSE Record(c, <<>>, <<>>)]

\* 1 cites itself and 2; 3 and the rest are dangling.
NetLoop == [c \in PMID |->
    IF c = 1 THEN Record(1, <<1, 2>>, <<1>>)
    ELSE IF c = 2 THEN Record(2, <<>>, <<1>>)
    ELSE Record(c, <<>>, <<>>)]

Networks == {NetStar, NetLoop}

\* ------------------------------------------------------------ Redis commands
SAdd(key, members) == [op |-> "sadd", key |-> key, members |-> members]
SRem(key, members) == [op |-> "srem", key |-> key, members |-> members]
HMSet(key, field, value) ==
    [op |-> "hmset", key |-> key, field |-> field, value |-> value]
SDiffStore(dest, a, b) == [op |-> "sdiffstore", key |-> dest, a |-> a, b |-> b]

\* A hash write that appends to the list already stored under the field.
HashPutAppend(h, field, value) ==
    [k \in DOMAIN h \cup {field} |->
        IF k # field THEN h[k]
        ELSE IF k \in DOMAIN h THEN h[k] \o value ELSE value]

\* A hash write that keeps no other field.
HashPutAlone(h, field, value) == [k \in {field} |-> value]

HashPut(h, field, value) ==
    [k \in DOMAIN h \cup {field} |-> IF k = field THEN value ELSE h[k]]

ApplyCommand(d, o) ==
    CASE o.op = "sadd" -> [d EXCEPT ![o.key] = @ \cup o.members]
      [] o.op = "srem" -> [d EXCEPT ![o.key] = @ \ o.members]
      [] o.op = "hmset" -> [d EXCEPT ![o.key] = HashPut(@, o.field, o.value)]
      [] o.op = "sdiffstore" -> [d EXCEPT ![o.key] = d[o.a] \ d[o.b]]

RECURSIVE ApplyAll(_, _)
ApplyAll(d, cmds) ==
    IF cmds = <<>> THEN d
    ELSE ApplyAll(ApplyCommand(d, Head(cmds)), Tail(cmds))

\* An execute that stops after the first command.
ExecuteFirstOnly(d, cmds) ==
    IF cmds = <<>> THEN d ELSE ApplyCommand(d, Head(cmds))

\* pipe.execute() of a transactional pipeline: MULTI, the commands, EXEC.
Execute(d, cmds) == ApplyAll(d, cmds)

Range(s) == {s[i] : i \in DOMAIN s}

\* ------------------------------------------------------------- worker.py
out_tuples(citation) ==
    [i \in DOMAIN citation.outbound |-> <<citation.id, citation.outbound[i]>>]

in_tuples(citation) ==
    [i \in DOMAIN citation.inbound |-> <<citation.inbound[i], citation.id>>]

\* worker() that does not mark a record without citations as seen.
workerDanglingUnseen(p, citation) ==
    IF citation.error
    THEN p
    ELSE IF Len(out_tuples(citation)) + Len(in_tuples(citation)) > 0
    THEN p \o << SAdd("SEEN", {citation.id}),
                 SAdd("GRAPH", Range(in_tuples(citation))
                               \cup Range(out_tuples(citation))),
                 HMSet("OUT", citation.id, citation.outbound),
                 SAdd("EXPLORE", Range(citation.inbound)
                                 \cup Range(citation.outbound)),
                 SDiffStore("EXPLORE", "EXPLORE", "SEEN"),
                 SRem("INSTANCE", {citation.id}) >>
    ELSE p \o << SAdd("DANGLING", {citation.id}),
                 SRem("INSTANCE", {citation.id}) >>

\* worker() that writes the OUT entry of every record, dangling or not.
workerIndexesDangling(p, citation) ==
    IF citation.error
    THEN p
    ELSE p \o << SAdd("SEEN", {citation.id}),
                 HMSet("OUT", citation.id, citation.outbound) >>
           \o (IF Len(out_tuples(citation)) + Len(in_tuples(citation)) > 0
               THEN << SAdd("GRAPH", Range(in_tuples(citation))
                                     \cup Range(out_tuples(citation))),
                       SAdd("EXPLORE", Range(citation.inbound)
                                       \cup Range(citation.outbound)),
                       SDiffStore("EXPLORE", "EXPLORE", "SEEN") >>
               ELSE << SAdd("DANGLING", {citation.id}) >>)
           \o <<SRem("INSTANCE", {citation.id})>>

\* worker() without the difference of EXPLORE and SEEN.
workerUnfiltered(p, citation) ==
    IF citation.error
    THEN p
    ELSE p \o <<SAdd("SEEN", {citation.id})>>
           \o (IF Len(out_tuples(citation)) + Len(in_tuples(citation)) > 0
               THEN << SAdd("GRAPH", Range(in_tuples(citation))
                                     \cup Range(out_tuples(citation))),
                       HMSet("OUT", citation.id, citation.outbound),
                       SAdd("EXPLORE", Range(citation.inbound)
                                       \cup Range(citation.outbound)) >>
               ELSE << SAdd("DANGLING", {citation.id}) >>)
           \o <<SRem("INSTANCE", {citation.id})>>

\* worker() taking the difference of EXPLORE and SEEN for every record.
workerFiltersAlways(p, citation) ==
    IF citation.error
    THEN p
    ELSE p \o <<SAdd("SEEN", {citation.id})>>
           \o (IF Len(out_tuples(citation)) + Len(in_tuples(citation)) > 0
               THEN << SAdd("GRAPH", Range(in_tuples(citation))
                                     \cup Range(out_tuples(citation))),
                       HMSet("OUT", citation.id, citation.outbound),
                       SAdd("EXPLORE", Range(citation.inbound)
                                       \cup Range(citation.outbound)) >>
               ELSE << SAdd("DANGLING", {citation.id}) >>)
           \o << SDiffStore("EXPLORE", "EXPLORE", "SEEN"),
                 SRem("INSTANCE", {citation.id}) >>

worker(p, citation) ==
    IF citation.error
    THEN p
    ELSE p \o <<SAdd("SEEN", {citation.id})>>
           \o (IF Len(out_tuples(citation)) + Len(in_tuples(citation)) > 0
               THEN << SAdd("GRAPH", Range(in_tuples(citation))
                                     \cup Range(out_tuples(citation))),
                       HMSet("OUT", citation.id, citation.outbound),
                       SAdd("EXPLORE", Range(citation.inbound)
                                       \cup Range(citation.outbound)),
                       SDiffStore("EXPLORE", "EXPLORE", "SEEN") >>
               ELSE << SAdd("DANGLING", {citation.id}) >>)
           \o <<SRem("INSTANCE", {citation.id})>>

\* ------------------------------------------------------------- query.py
\* A failure handler that releases the batch without queueing it again.
failedRequestHandlerNoRequeue(p, batch) ==
    p \o << SRem("INSTANCE", batch) >>

failedRequestHandler(p, batch) ==
    p \o << SRem("INSTANCE", batch), SAdd("EXPLORE", batch) >>

RECURSIVE successfulRequestHandler(_, _)
successfulRequestHandler(p, linkset_container) ==
    IF linkset_container = <<>> THEN p
    ELSE successfulRequestHandler(worker(p, Head(linkset_container)),
                                  Tail(linkset_container))

\* The response's LinkSet list: one linkset per requested PMID, in the order
\* the PMIDs were sent.
Orders(S) ==
    {s \in [1..Cardinality(S) -> S] : \A i, j \in DOMAIN s : i # j => s[i] # s[j]}

LinkSets(order, net, bad) ==
    [i \in DOMAIN order |->
        IF order[i] \in bad THEN Malformed(order[i]) ELSE net[order[i]]]

\* ------------------------------------------------------------ Redis.pop
\* srandmember(name, number): `number' distinct members, or all of them.
Min(a, b) == IF a < b THEN a ELSE b

srandmember(set, n) ==
    {s \in SUBSET set : Cardinality(s) = Min(n, Cardinality(set))}

Keys == {"EXPLORE", "INSTANCE", "SEEN", "DANGLING", "GRAPH", "OUT"}

InitDb(seeds) ==
    [k \in Keys |-> IF k = "EXPLORE" THEN seeds
                    ELSE IF k = "OUT" THEN <<>> ELSE {}]

\* The seed sets the crawl is started from.
SeedSets == {{1}, PMID}

TypeOK ==
    /\ DOMAIN db = Keys
    /\ EXPLORE \subseteq PMID /\ INST \subseteq PMID
    /\ SEEN \subseteq PMID /\ DANGLING \subseteq PMID
    /\ GRAPH \subseteq PMID \X PMID
    /\ DOMAIN OUT \subseteq PMID
    /\ proc_count \in 0..MaxProcs
    /\ mpc \in {"loop", "srem", "claimed", "dispatch", "done"}
    /\ popped \subseteq PMID
    /\ qpc \in [Proc -> {"idle", "request", "execute", "decrement", "raised"}]
    /\ pmids \in [Proc -> SUBSET PMID]
    /\ fails \in 0..MaxFails
    /\ resp \in [Proc -> {"none", "transport_error", "not_ok", "not_xml",
                          "no_linkset", "ok"}]
    /\ api \subseteq Networks
    /\ cpc \in [Caller -> {"off", "call", "srem", "returned", "raised"}]

Init ==
    /\ \E seeds \in SeedSets : db = InitDb(seeds)
    /\ proc_count = 0
    /\ mpc = "loop"
    /\ popped = {}
    /\ qpc = [w \in Proc |-> "idle"]
    /\ pmids = [w \in Proc |-> {}]
    /\ pipe = [w \in Proc |-> <<>>]
    /\ fails = 0
    /\ resp = [w \in Proc |-> "none"]
    /\ api = Networks
    /\ cpc = [c \in Caller |-> "off"]
    /\ cpopped = [c \in Caller |-> {}]
    /\ cremoved = [c \in Caller |-> {}]
    /\ record = NoRecord
    /\ applied = 0

callerVars == <<cpc, cpopped, cremoved>>
queryVars == <<qpc, pmids, pipe, fails, resp>>
protoVars == <<record, applied>>

\* --------------------------------------------------------------- Manager
\* Redis.pop, first call: popped = r.srandmember(name=database, number=n)
MgrPopSrandmember ==
    /\ mpc = "loop"
    /\ proc_count < MaxProcs
    /\ EXPLORE # {}
    /\ \E s \in srandmember(EXPLORE, BatchSize) : popped' = s
    /\ mpc' = "srem"
    /\ UNCHANGED <<db, proc_count, queryVars, api, callerVars, protoVars>>

\* Redis.pop, second call: r.srem(database, *popped)
MgrPopSrem ==
    /\ mpc = "srem"
    /\ db' = ApplyCommand(db, SRem("EXPLORE", popped))
    /\ mpc' = "claimed"
    /\ UNCHANGED <<proc_count, popped, queryVars, api, callerVars, protoVars>>

\* The claimed batch is added to INSTANCE.
MgrMarkClaimed ==
    /\ mpc = "claimed"
    /\ db' = ApplyCommand(db, SAdd("INSTANCE", popped))
    /\ mpc' = "dispatch"
    /\ UNCHANGED <<proc_count, popped, queryVars, api, callerVars, protoVars>>

\* Under the lock the counter is incremented, and a Query is started for the
\* batch in a free process of the pool.
MgrDispatch ==
    /\ mpc = "dispatch"
    /\ \E w \in Proc :
        /\ qpc[w] = "idle"
        /\ \A v \in Proc : qpc[v] = "idle" => w <= v
        /\ qpc' = [qpc EXCEPT ![w] = "request"]
        /\ pmids' = [pmids EXCEPT ![w] = popped]
    /\ proc_count' = proc_count + 1
    /\ popped' = {}
    /\ mpc' = "loop"
    /\ UNCHANGED <<db, pipe, fails, resp, api, callerVars, protoVars>>

\* Frontier exhausted: the Manager stops.
MgrDone ==
    /\ mpc = "loop"
    /\ EXPLORE = {} /\ INST = {} /\ proc_count = 0
    /\ mpc' = "done"
    /\ UNCHANGED <<db, proc_count, popped, queryVars, api, callerVars, protoVars>>

\* ----------------------------------------------------------------- Query
\* get() raises (transport error): __init__ ends there.
QueryGetRaises(w) ==
    /\ qpc[w] = "request"
    /\ fails < MaxFails
    /\ qpc' = [qpc EXCEPT ![w] = "raised"]
    /\ fails' = fails + 1
    /\ resp' = [resp EXCEPT ![w] = "transport_error"]
    /\ UNCHANGED <<db, proc_count, mpc, popped, pmids, pipe, api, callerVars, protoVars>>

\* r.ok is false: __failedRequestHandler
QueryNotOk(w) ==
    /\ qpc[w] = "request"
    /\ fails < MaxFails
    /\ pipe' = [pipe EXCEPT ![w] = failedRequestHandler(<<>>, pmids[w])]
    /\ qpc' = [qpc EXCEPT ![w] = "execute"]
    /\ fails' = fails + 1
    /\ resp' = [resp EXCEPT ![w] = "not_ok"]
    /\ UNCHANGED <<db, proc_count, mpc, popped, pmids, api, callerVars, protoVars>>

\* r.ok, but parse(response_raw) raises on a body that is not XML.
QueryParseRaises(w) ==
    /\ qpc[w] = "request"
    /\ fails < MaxFails
    /\ qpc' = [qpc EXCEPT ![w] = "raised"]
    /\ fails' = fails + 1
    /\ resp' = [resp EXCEPT ![w] = "not_xml"]
    /\ UNCHANGED <<db, proc_count, mpc, popped, pmids, pipe, api, callerVars, protoVars>>

\* r.ok, but response['eLinkResult']['LinkSet'] raises KeyError.
QueryNoLinkSet(w) ==
    /\ qpc[w] = "request"
    /\ fails < MaxFails
    /\ pipe' = [pipe EXCEPT ![w] = failedRequestHandler(<<>>, pmids[w])]
    /\ qpc' = [qpc EXCEPT ![w] = "execute"]
    /\ fails' = fails + 1
    /\ resp' = [resp EXCEPT ![w] = "no_linkset"]
    /\ UNCHANGED <<db, proc_count, mpc, popped, pmids, api, callerVars, protoVars>>

\* r.ok with a LinkSet per PMID; those in `bad' cannot be interpreted.
QueryOk(w) ==
    /\ qpc[w] = "request"
    /\ \E net \in api, order \in Orders(pmids[w]), bad \in SUBSET pmids[w] :
        /\ fails + Cardinality(bad) <= MaxFails
        /\ pipe' = [pipe EXCEPT ![w] =
                      successfulRequestHandler(<<>>, LinkSets(order, net, bad))]
        /\ fails' = fails + Cardinality(bad)
    /\ qpc' = [qpc EXCEPT ![w] = "execute"]
    /\ resp' = [resp EXCEPT ![w] = "ok"]
    /\ UNCHANGED <<db, proc_count, mpc, popped, pmids, api, callerVars, protoVars>>

\* pipe.execute()
QueryExecute(w) ==
    /\ qpc[w] = "execute"
    /\ db' = Execute(db, pipe[w])
    /\ pipe' = [pipe EXCEPT ![w] = <<>>]
    /\ qpc' = [qpc EXCEPT ![w] = "decrement"]
    /\ UNCHANGED <<proc_count, mpc, popped, pmids, fails, resp, api, callerVars, protoVars>>

\* A completion that takes two off the counter.
QueryDecrementTwice(w) ==
    /\ qpc[w] = "decrement"
    /\ proc_count' = proc_count - 2
    /\ qpc' = [qpc EXCEPT ![w] = "idle"]
    /\ pmids' = [pmids EXCEPT ![w] = {}]
    /\ resp' = [resp EXCEPT ![w] = "none"]
    /\ UNCHANGED <<db, mpc, popped, pipe, fails, api, callerVars, protoVars>>

\* lock.acquire(); proc_count.value -= 1; lock.release()
QueryDecrement(w) ==
    /\ qpc[w] = "decrement"
    /\ proc_count' = proc_count - 1
    /\ qpc' = [qpc EXCEPT ![w] = "idle"]
    /\ pmids' = [pmids EXCEPT ![w] = {}]
    /\ resp' = [resp EXCEPT ![w] = "none"]
    /\ UNCHANGED <<db, mpc, popped, pipe, fails, api, callerVars, protoVars>>

Next ==
    \/ MgrPopSrandmember
    \/ MgrPopSrem
    \/ MgrMarkClaimed
    \/ MgrDispatch
    \/ MgrDone
    \/ \E w \in Proc : QueryGetRaises(w)
    \/ \E w \in Proc : QueryNotOk(w)
    \/ \E w \in Proc : QueryParseRaises(w)
    \/ \E w \in Proc : QueryNoLinkSet(w)
    \/ \E w \in Proc : QueryOk(w)
    \/ \E w \in Proc : QueryExecute(w)
    \/ \E w \in Proc : QueryDecrement(w)

Spec == Init /\ [][Next]_vars

\* The crawl against a lookup API that answers every request from the same
\* citation network.
InitStable ==
    /\ \E seeds \in SeedSets : db = InitDb(seeds)
    /\ proc_count = 0
    /\ mpc = "loop"
    /\ popped = {}
    /\ qpc = [w \in Proc |-> "idle"]
    /\ pmids = [w \in Proc |-> {}]
    /\ pipe = [w \in Proc |-> <<>>]
    /\ fails = 0
    /\ resp = [w \in Proc |-> "none"]
    /\ \E net \in Networks : api = {net}
    /\ cpc = [c \in Caller |-> "off"]
    /\ cpopped = [c \in Caller |-> {}]
    /\ cremoved = [c \in Caller |-> {}]
    /\ record = NoRecord
    /\ applied = 0

SpecStable == InitStable /\ [][Next]_vars

\* The Manager loop and every started process keep running, and a request
\* that is sent is eventually answered; failures are not owed.
Fairness ==
    /\ WF_vars(MgrPopSrandmember)
    /\ WF_vars(MgrPopSrem)
    /\ WF_vars(MgrMarkClaimed)
    /\ WF_vars(MgrDispatch)
    /\ WF_vars(MgrDone)
    /\ \A w \in Proc : /\ WF_vars(QueryOk(w))
                       /\ WF_vars(QueryExecute(w))
                       /\ WF_vars(QueryDecrement(w))

FairSpec == Init /\ [][Next]_vars /\ Fairness

\* ------------------------------------------- Redis.pop called concurrently
\* Each caller runs Redis.pop(database='E', n=BatchSize) once on the store.
CallSrandmember(c) ==
    /\ cpc[c] = "call"
    /\ \E s \in srandmember(EXPLORE, BatchSize) :
           cpopped' = [cpopped EXCEPT ![c] = s]
    /\ cpc' = [cpc EXCEPT ![c] = "srem"]
    /\ UNCHANGED <<db, proc_count, mpc, popped, queryVars, api, cremoved, protoVars>>

\* r.srem(database, *popped) and return popped
CallSrem(c) ==
    /\ cpc[c] = "srem"
    /\ cpopped[c] # {}
    /\ db' = ApplyCommand(db, SRem("EXPLORE", cpopped[c]))
    /\ cremoved' = [cremoved EXCEPT ![c] = EXPLORE \cap cpopped[c]]
    /\ cpc' = [cpc EXCEPT ![c] = "returned"]
    /\ UNCHANGED <<proc_count, mpc, popped, queryVars, api, cpopped, protoVars>>

\* r.srem(database) without a member is an error reply: pop raises.
CallSremRaises(c) ==
    /\ cpc[c] = "srem"
    /\ cpopped[c] = {}
    /\ cpc' = [cpc EXCEPT ![c] = "raised"]
    /\ UNCHANGED <<db, proc_count, mpc, popped, queryVars, api, cpopped, cremoved, protoVars>>

InitPop ==
    /\ \E members \in SUBSET PMID : db = InitDb(members)
    /\ proc_count = 0
    /\ mpc = "done"
    /\ popped = {}
    /\ qpc = [w \in Proc |-> "idle"]
    /\ pmids = [w \in Proc |-> {}]
    /\ pipe = [w \in Proc |-> <<>>]
    /\ fails = 0
    /\ resp = [w \in Proc |-> "none"]
    /\ api = Networks
    /\ cpc = [c \in Caller |-> "call"]
    /\ cpopped = [c \in Caller |-> {}]
    /\ cremoved = [c \in Caller |-> {}]
    /\ record = NoRecord
    /\ applied = 0

NextPop ==
    \/ \E c \in Caller : CallSrandmember(c)
    \/ \E c \in Caller : CallSrem(c)
    \/ \E c \in Caller : CallSremRaises(c)

SpecPop == InitPop /\ [][NextPop]_vars

\* C1: two concurrent pops of size BatchSize return disjoint batches whose
\* union has min(m, 2 * BatchSize) members, m being the members the set held
\* before the calls, and each call returns exactly the members it removed.
PopMembersBefore ==
    EXPLORE \cup UNION {cremoved[c] : c \in Caller}

C1_AtomicClaim ==
    \A c1, c2 \in Caller :
        (c1 # c2 /\ cpc[c1] = "returned" /\ cpc[c2] = "returned") =>
            /\ cpopped[c1] \cap cpopped[c2] = {}
            /\ Cardinality(cpopped[c1] \cup cpopped[c2])
                 = Min(Cardinality(PopMembersBefore), 2 * BatchSize)
            /\ cpopped[c1] = cremoved[c1]
            /\ cpopped[c2] = cremoved[c2]

\* ------------------------------------------------------- steps of a Query
\* The step in which Query w runs pipe.execute().
Executes(w) == qpc[w] = "execute" /\ qpc'[w] = "decrement"

\* The step in which Query w ends with an exception.
Raises(w) == qpc[w] = "request" /\ qpc'[w] = "raised"

\* The pipeline staged by __failedRequestHandler for the batch of w.
IsRollback(w) == pipe[w] = failedRequestHandler(<<>>, pmids[w])

\* Batches handed to a Query whose pipeline has not been executed yet.
InFlight == {w \in Proc : qpc[w] \in {"request", "execute"}}

\* C2: when the request of a batch B fails, the commit of the Query leaves
\* B inside EXPLORE, outside INSTANCE and outside SEEN, and nothing is
\* recorded for the batch (SEEN, DANGLING, GRAPH and OUT are as before).
C2_RollbackOnFailure ==
    [][\A w \in Proc : (Executes(w) /\ IsRollback(w)) =>
          /\ pmids[w] \subseteq EXPLORE'
          /\ pmids[w] \cap INST' = {}
          /\ pmids[w] \cap SEEN' = {}
          /\ SEEN' = SEEN /\ DANGLING' = DANGLING
          /\ GRAPH' = GRAPH /\ OUT' = OUT]_vars

\* C3: when a Query run for a batch ends, by its commit or by an exception,
\* no member of the batch is in INSTANCE.
C3_ClaimsTransient ==
    [][\A w \in Proc : (Executes(w) \/ Raises(w)) => pmids[w] \cap INST' = {}]_vars

\* C4: with no Query in flight and the Manager between two claims, INSTANCE
\* is empty and every discovered PMID is in exactly one of EXPLORE and SEEN.
Quiescent ==
    /\ mpc \in {"loop", "done"}
    /\ proc_count = 0
    /\ \A w \in Proc : qpc[w] = "idle"

Discovered ==
    EXPLORE \cup INST \cup SEEN \cup {e[1] : e \in GRAPH} \cup {e[2] : e \in GRAPH}

C4_PartitionAtQuiescence ==
    Quiescent =>
        /\ INST = {}
        /\ EXPLORE \cap SEEN = {}
        /\ Discovered \subseteq EXPLORE \cup SEEN

\* C5: right after every pipe.execute(), EXPLORE and SEEN are disjoint.
C5_ExploreSeenDisjoint ==
    [][\A w \in Proc : Executes(w) => EXPLORE' \cap SEEN' = {}]_vars

\* C6: no PMID is in the batches of two Query runs in flight at once.
C6_ExclusiveClaim ==
    \A w1, w2 \in InFlight : w1 # w2 => pmids[w1] \cap pmids[w2] = {}

\* C8: a batch commit is indivisible.  A PMID that enters SEEN has, in the
\* same step, left INSTANCE and been entered in DANGLING or OUT; a PMID that
\* leaves INSTANCE is, in the same step, in SEEN or back in EXPLORE.
C8_AtomicCommit ==
    [][\A c \in PMID :
          /\ (c \notin SEEN /\ c \in SEEN') =>
                (c \notin INST' /\ (c \in DANGLING' \/ c \in DOMAIN OUT'))
          /\ (c \in INST /\ c \notin INST') =>
                (c \in SEEN' \/ c \in EXPLORE')]_vars

\* Two Query runs have just committed: one a record with edges, the other
\* the rollback of its batch.
C8_Witness ==
    \E w1, w2 \in Proc :
        /\ qpc[w1] = "decrement" /\ qpc[w2] = "decrement"
        /\ pmids[w1] \cap DOMAIN OUT \cap SEEN # {}
        /\ pmids[w1] \cap INST = {}
        /\ fails > 0
        /\ pmids[w2] # {}
        /\ pmids[w2] \subseteq EXPLORE \ (SEEN \cup INST)

\* C7: every PMID that enters EXPLORE is eventually in SEEN.
C7_EventuallyProcessed ==
    \A c \in PMID : (c \in EXPLORE) ~> (c \in SEEN)

\* C9: the counter is the number of started Query runs that have not ended.
C9_CounterMatchesRuns ==
    /\ proc_count >= 0
    /\ proc_count = Cardinality({w \in Proc :
                        qpc[w] \in {"request", "execute", "decrement"}})

ScenarioRecord == Record(1, <<2, 3>>, <<>>)

ProtocolRecords ==
    {net[c] : net \in Networks, c \in PMID}
        \cup {Malformed(c) : c \in PMID} \cup {ScenarioRecord}

GraphUpdate ==
    /\ applied < 2
    /\ db' = Execute(db, worker(<<>>, record))
    /\ applied' = applied + 1
    /\ UNCHANGED <<proc_count, mpc, popped, queryVars, api, callerVars, record>>

InitProtocol ==
    /\ \E rec \in ProtocolRecords :
        /\ record = rec
        /\ \E explore \in SUBSET PMID, seen \in SUBSET PMID,
              inst \in {{}, {rec.id}, PMID},
              dangling \in {{}, {rec.id}},
              graph \in {{}, {<<rec.id, rec.id>>}},
              out \in {<<>>, HashPut(<<>>, rec.id, <<rec.id>>)} :
            db = [k \in Keys |->
                    CASE k = "EXPLORE" -> explore
                      [] k = "SEEN" -> seen
                      [] k = "INSTANCE" -> inst
                      [] k = "DANGLING" -> dangling
                      [] k = "GRAPH" -> graph
                      [] k = "OUT" -> out]
    /\ applied = 0
    /\ proc_count = 0
    /\ mpc = "done"
    /\ popped = {}
    /\ qpc = [w \in Proc |-> "idle"]
    /\ pmids = [w \in Proc |-> {}]
    /\ pipe = [w \in Proc |-> <<>>]
    /\ fails = 0
    /\ resp = [w \in Proc |-> "none"]
    /\ api = Networks
    /\ cpc = [c \in Caller |-> "off"]
    /\ cpopped = [c \in Caller |-> {}]
    /\ cremoved = [c \in Caller |-> {}]

NextProtocol == GraphUpdate

SpecProtocol == InitProtocol /\ [][NextProtocol]_vars

FirstCommit == applied = 0 /\ applied' = 1
SecondCommit == applied = 1 /\ applied' = 2

HasEdges(citation) ==
    ~citation.error /\ Len(citation.outbound) + Len(citation.inbound) > 0

IsDangling(citation) ==
    ~citation.error /\ Len(citation.outbound) + Len(citation.inbound) = 0

Neighbours(citation) == Range(citation.inbound) \cup Range(citation.outbound)

\* C11: committing the commands of a record a second time leaves every key
\* of the store as the first commit left it.
C11_Idempotent ==
    [][SecondCommit => db' = db]_vars

\* A record with outbound citations has been committed twice on a store
\* that held a frontier and the claim of the record.
C11_Witness ==
    /\ applied = 2
    /\ HasEdges(record) /\ Len(record.outbound) > 1
    /\ record.id \in SEEN /\ EXPLORE # {}

\* C13: the commit of a record with error = true takes its id out of
\* INSTANCE and does not add it to SEEN.
C13_ErrorReleasesClaim ==
    [][(FirstCommit /\ record.error) =>
          /\ record.id \notin INST'
          /\ (record.id \in SEEN' <=> record.id \in SEEN)]_vars

\* C16: after the commit of a well-formed record with an edge, its id is in
\* SEEN and not in INSTANCE, GRAPH has gained exactly its edges, self-loops
\* included, OUT holds its outbound list, every neighbour outside SEEN is in
\* EXPLORE and no member of SEEN is.
C16_StepWithEdges ==
    [][(FirstCommit /\ HasEdges(record)) =>
          /\ record.id \in SEEN'
          /\ GRAPH' = GRAPH \cup Range(out_tuples(record))
                            \cup Range(in_tuples(record))
          /\ record.id \in DOMAIN OUT'
          /\ OUT'[record.id] = record.outbound
          /\ Neighbours(record) \ SEEN' \subseteq EXPLORE'
          /\ SEEN' \cap EXPLORE' = {}
          /\ record.id \notin INST']_vars

\* Seed 1 with outbound [2, 3]: SEEN = {1}, GRAPH = {(1,2), (1,3)},
\* OUT = {1: [2, 3]}, EXPLORE = {2, 3}, INSTANCE = {}.
C16_Witness ==
    /\ applied = 1
    /\ record = ScenarioRecord
    /\ SEEN = {1}
    /\ GRAPH = {<<1, 2>>, <<1, 3>>}
    /\ DOMAIN OUT = {1} /\ OUT[1] = <<2, 3>>
    /\ EXPLORE = {2, 3}
    /\ INST = {}

\* C17: the commit of a well-formed record without citations adds its id to
\* SEEN and DANGLING, takes it out of INSTANCE and leaves GRAPH, OUT and
\* EXPLORE as they were.
C17_DanglingStep ==
    [][(FirstCommit /\ IsDangling(record)) =>
          /\ SEEN' = SEEN \cup {record.id}
          /\ DANGLING' = DANGLING \cup {record.id}
          /\ INST' = INST \ {record.id}
          /\ GRAPH' = GRAPH
          /\ OUT' = OUT
          /\ EXPLORE' = EXPLORE]_vars

\* A dangling record was committed on a store whose frontier held its id.
C17_Witness ==
    /\ applied = 1
    /\ IsDangling(record)
    /\ record.id \in SEEN \cap DANGLING \cap EXPLORE
    /\ record.id \notin INST
    /\ GRAPH = {}

\* ------------------------------------------------------ the crawl, again
\* C12: every PMID in DANGLING is in SEEN.
C12_DanglingSeen == DANGLING \subseteq SEEN

\* A dangling PMID and a PMID with citations have both been processed.
C12_Witness == DANGLING # {} /\ SEEN \ DANGLING # {}

\* C14: when the request of a batch ends in a transport error, the batch is
\* afterwards inside EXPLORE, outside INSTANCE and outside SEEN.
C14_TransportErrorIsFailure ==
    [][\A w \in Proc : (Raises(w) /\ resp'[w] = "transport_error") =>
          /\ pmids[w] \subseteq EXPLORE'
          /\ pmids[w] \cap INST' = {}
          /\ pmids[w] \cap SEEN' = {}]_vars

\* C15: the commit of a Query whose ok response had no LinkSet records
\* nothing and moves the whole batch from INSTANCE to EXPLORE.
C15_NoLinkSetIsFailure ==
    [][\A w \in Proc : (Executes(w) /\ resp[w] = "no_linkset") =>
          /\ SEEN' = SEEN /\ DANGLING' = DANGLING
          /\ GRAPH' = GRAPH /\ OUT' = OUT
          /\ pmids[w] \cap INST' = {}
          /\ pmids[w] \subseteq EXPLORE'
          /\ EXPLORE' = EXPLORE \cup pmids[w]
          /\ INST' = INST \ pmids[w]]_vars

\* A Query has just committed after a response without LinkSet, and its
\* batch is back in the frontier.
C15_Witness ==
    \E w \in Proc :
        /\ qpc[w] = "decrement" /\ resp[w] = "no_linkset"
        /\ pmids[w] # {}
        /\ pmids[w] \subseteq EXPLORE \ INST

\* Query runs that were started and have not run to their end.
Outstanding == {w \in Proc : qpc[w] # "idle"}

\* C18: at most MaxProcs batches are outstanding, and the Manager is past
\* its admission test only with the counter below MaxProcs.
C18_Backpressure ==
    /\ Cardinality(Outstanding) <= MaxProcs
    /\ proc_count <= MaxProcs
    /\ mpc \in {"srem", "claimed", "dispatch"} => proc_count < MaxProcs

\* The pool is at the cap while the frontier is not empty: the Manager idles.
C18_Witness ==
    /\ Cardinality(Outstanding) = MaxProcs
    /\ proc_count = MaxProcs
    /\ mpc = "loop"
    /\ EXPLORE # {}

\* C19: the Manager eventually reaches DONE, and is in DONE only with
\* EXPLORE and INSTANCE empty and no Query counted in flight.
C19_TerminatesByExhaustion ==
    /\ <>(mpc = "done")
    /\ [](mpc = "done" => (EXPLORE = {} /\ INST = {} /\ proc_count = 0))

\* C20: a PMID in SEEN is in DANGLING or a key of OUT and not both, the keys
\* of OUT and the members of DANGLING are in SEEN, and every edge of GRAPH
\* has an endpoint in SEEN.
C20_SeenIndexed ==
    /\ \A c \in SEEN : (c \in DANGLING) # (c \in DOMAIN OUT)
    /\ DOMAIN OUT \subseteq SEEN
    /\ DANGLING \subseteq SEEN
    /\ \A e \in GRAPH : e[1] \in SEEN \/ e[2] \in SEEN

\* A dangling PMID and a PMID with edges have been processed, and an edge
\* leads to a PMID that has not.
C20_Witness ==
    /\ DANGLING # {} /\ DOMAIN OUT # {}
    /\ \E e \in GRAPH : e[2] \notin SEEN

====
